---- MODULE Spec2Model ----
(***************************************************************************)
(* A model of cppmuck (src/cppmuck/cppmuck.py): main() runs parse_file,    *)
(* which loads the compilation database, finds the compile command, builds *)
(* the argument vector, parses the translation unit, checks its            *)
(* diagnostics and walks its cursors (filter, Func construction, prefix    *)
(* match, de-duplication), and then generate_file, which renders the       *)
(* accepted functions grouped by namespace.  Strings are TLA+ strings and  *)
(* are taken apart with Len, SubSeq and \o exactly where the Python code   *)
(* uses startswith, split, join, slicing and %-formatting.                 *)
(***************************************************************************)
EXTENDS Integers, Sequences, FiniteSets, TLC

VARIABLES
    pc,               \* position in main()/parse_file()
    decls,            \* the cursors the translation unit's walk can yield
    root_dir,         \* args.root_dir (absolute)
    filepath,         \* args.filepath (absolute)
    output_path,      \* args.output_file (absolute)
    typenames,        \* args.typenames
    comp_db,          \* the loaded compilation database (sequence of commands)
    compile_command,  \* parse_file's compile_command: <<>> for None, else <<command>>
    argv,             \* result of argv_from_compdb
    tu,               \* "none" before index.parse, then "loaded", or "error" for TranslationUnitLoadError
    diagnostics,      \* tu.diagnostics
    walked,           \* the cursors walk_preorder has yielded so far, in order
    all_funcs,        \* parse_file's all_funcs
    stdout,           \* the lines printed so far
    output_file,      \* the content of the output file, NoFile while there is none
    exit_code         \* -1 while running, then the process's exit status

vars == <<pc, decls, root_dir, filepath, output_path,
                   typenames, comp_db, compile_command,
          argv, tu, diagnostics, walked, all_funcs, stdout, output_file, exit_code>>

\* Bound: the number of cursors one walk yields.
MaxCursors == 3

\* clang.cindex.Diagnostic severities.
Note == 1
Warning == 2
Error == 3
Fatal == 4

NoFile == "<no file>"

-----------------------------------------------------------------------------
(* Python string operations.                                               *)

\* str.startswith
StartsWith(s, p) == Len(p) <= Len(s) /\ SubSeq(s, 1, Len(p)) = p

\* str.find + 1: the first position where sep occurs in s, 0 when nowhere
Find(s, sep) ==
    LET hits == { i \in 1..(Len(s) - Len(sep) + 1) :
                    SubSeq(s, i, i + Len(sep) - 1) = sep }
    IN  IF hits = {} THEN 0 ELSE CHOOSE i \in hits : \A j \in hits : i <= j

\* str.rfind + 1: the last position where sep occurs in s, 0 when nowhere
RFind(s, sep) ==
    LET hits == { i \in 1..(Len(s) - Len(sep) + 1) :
                    SubSeq(s, i, i + Len(sep) - 1) = sep }
    IN  IF hits = {} THEN 0 ELSE CHOOSE i \in hits : \A j \in hits : i >= j

\* s.split(sep): "".split("::") is [""], "a::b".split("::") is ["a", "b"]
RECURSIVE Split(_, _)
Split(s, sep) ==
    LET i == Find(s, sep)
    IN  IF i = 0 THEN <<s>>
        ELSE <<SubSeq(s, 1, i - 1)>> \o Split(SubSeq(s, i + Len(sep), Len(s)), sep)

\* sep.join(parts)
RECURSIVE Join(_, _)
Join(parts, sep) ==
    IF Len(parts) = 0 THEN ""
    ELSE IF Len(parts) = 1 THEN parts[1]
    ELSE parts[1] \o sep \o Join(Tail(parts), sep)

\* os.path.isabs
IsAbs(p) == StartsWith(p, "/")

\* os.path.join(a, b)
PathJoin(a, b) ==
    IF IsAbs(b) THEN b
    ELSE IF a = "" \/ SubSeq(a, Len(a), Len(a)) = "/" THEN a \o b
    ELSE a \o "/" \o b

\* os.path.basename
Basename(p) == SubSeq(p, RFind(p, "/") + 1, Len(p))

\* os.path.splitext(name)[0] for a name without directory part: the text
\* before the last dot, unless only dots precede that dot (leading dots
\* begin no extension)
SplitextRoot(name) ==
    LET d == RFind(name, ".")
    IN  IF d = 0 \/ \A i \in 1..(d - 1) : SubSeq(name, i, i) = "."
        THEN name
        ELSE SubSeq(name, 1, d - 1)

\* the components os.path.normpath keeps: "" and "." are dropped, ".."
\* removes the component before it, or is dropped at the root
RECURSIVE NormComps(_, _, _)
NormComps(comps, new, initial) ==
    IF Len(comps) = 0 THEN new
    ELSE LET comp == comps[1]
             rest == Tail(comps)
         IN  IF comp = "" \/ comp = "." THEN NormComps(rest, new, initial)
             ELSE IF \/ comp # ".."
                     \/ (initial = 0 /\ Len(new) = 0)
                     \/ (Len(new) > 0 /\ new[Len(new)] = "..")
                  THEN NormComps(rest, Append(new, comp), initial)
             ELSE IF Len(new) > 0
                  THEN NormComps(rest, SubSeq(new, 1, Len(new) - 1), initial)
             ELSE NormComps(rest, new, initial)

\* os.path.normpath (posixpath)
NormPath(path) ==
    IF path = "" THEN "."
    ELSE LET initial == IF ~StartsWith(path, "/") THEN 0
                        ELSE IF StartsWith(path, "//") /\ ~StartsWith(path, "///")
                             THEN 2 ELSE 1
             full == (IF initial = 2 THEN "//" ELSE IF initial = 1 THEN "/" ELSE "")
                        \o Join(NormComps(Split(path, "/"), <<>>, initial), "/")
         IN  IF full = "" THEN "." ELSE full

\* str.strip(ch) for a one-character ch
RECURSIVE Strip(_, _)
Strip(s, ch) ==
    IF Len(s) > 0 /\ SubSeq(s, 1, 1) = ch THEN Strip(SubSeq(s, 2, Len(s)), ch)
    ELSE IF Len(s) > 0 /\ SubSeq(s, Len(s), Len(s)) = ch
         THEN Strip(SubSeq(s, 1, Len(s) - 1), ch)
    ELSE s

\* the line boundaries of str.splitlines that a string can hold here: line
\* feed, carriage return, form feed, vertical tab (0x0b), the file, group and
\* record separators (0x1c, 0x1d, 0x1e) and next line (0x85); the line and
\* paragraph separators U+2028 and U+2029 are boundaries too, but no string
\* of this module can hold them
LineEnds == {"\n", "\r", "\f", "", "", "", "", ""}

\* str.splitlines: a boundary closes a line ("\r\n" is one boundary), and
\* what follows the last boundary is a line unless empty
RECURSIVE SplitLines(_)
SplitLines(s) ==
    LET ends == { i \in 1..Len(s) : SubSeq(s, i, i) \in LineEnds }
        e    == CHOOSE i \in ends : \A j \in ends : i <= j
        next == IF e < Len(s) /\ SubSeq(s, e, e + 1) = "\r\n" THEN e + 2 ELSE e + 1
    IN  IF ends = {} THEN (IF s = "" THEN <<>> ELSE <<s>>)
        ELSE <<SubSeq(s, 1, e - 1)>> \o SplitLines(SubSeq(s, next, Len(s)))

-----------------------------------------------------------------------------
(* Scope resolution: get_parent and get_namespace walk semantic_parent.   *)
(* A cursor's semantic_parents field lists its ancestors innermost first;  *)
(* the ancestor after the last one listed is the translation unit.         *)

ClassKinds == {"CLASS_DECL", "CLASS_TEMPLATE", "STRUCT_DECL"}

KindAt(scope, i) == IF i > Len(scope) THEN "TRANSLATION_UNIT" ELSE scope[i].kind

RECURSIVE ParentChain(_, _)
ParentChain(scope, i) ==
    IF KindAt(scope, i) \notin ClassKinds THEN <<>>
    ELSE ParentChain(scope, i + 1) \o <<scope[i].spelling>>

get_parent(cursor) == Join(ParentChain(cursor.semantic_parents, 1), "::")

RECURSIVE NamespaceChain(_, _)
NamespaceChain(scope, i) ==
    IF KindAt(scope, i) \in ClassKinds THEN NamespaceChain(scope, i + 1)
    ELSE IF KindAt(scope, i) # "NAMESPACE" THEN <<>>
    ELSE NamespaceChain(scope, i + 1) \o <<scope[i].spelling>>

get_namespace(cursor) == Join(NamespaceChain(cursor.semantic_parents, 1), "::")

-----------------------------------------------------------------------------
(* class Arg and class Func.                                               *)

Arg(c) == [name |-> c.spelling, type |-> c.type]

Arg_eq(self, other) == self.name = other.name /\ self.type = other.type

\* arg in args: some element of the list equals arg
ArgIn(arg, args) == \E i \in 1..Len(args) : Arg_eq(args[i], arg)

Func_full_name(namespace, parent, name) ==
    LET r1 == IF namespace # "" THEN namespace ELSE ""
        r2 == IF parent # ""
              THEN (IF r1 # "" THEN r1 \o "::" ELSE r1) \o parent
              ELSE r1
        r3 == IF r2 # "" THEN r2 \o "::" ELSE r2
    IN  r3 \o name

Func(c) ==
    [ name        |-> c.spelling,
      parent      |-> get_parent(c),
      namespace   |-> get_namespace(c),
      return_type |-> c.result_type,
      file        |-> c.file,
      line        |-> c.line,
      is_ctor     |-> c.kind \in {"CONSTRUCTOR", "DESTRUCTOR"},
      is_const    |-> c.is_const_method,
      except_kind |-> IF c.exception_specification_kind = "BASIC_NOEXCEPT"
                      THEN "noexcept" ELSE "",
      args        |-> [i \in 1..Len(c.arguments) |-> Arg(c.arguments[i])],
      full_name   |-> Func_full_name(get_namespace(c), get_parent(c), c.spelling) ]

Func_eq(self, other) ==
    /\ self.name = other.name
    /\ self.parent = other.parent
    /\ self.namespace = other.namespace
    /\ self.return_type = other.return_type
    /\ Len(self.args) = Len(other.args)
    /\ \A i \in 1..Len(self.args) : ArgIn(self.args[i], other.args)

\* the "<type> <name>, " pieces of Func.__str__, joined
RECURSIVE ArgsText(_)
ArgsText(args) ==
    IF Len(args) = 0 THEN ""
    ELSE args[1].type \o " " \o args[1].name \o ", " \o ArgsText(Tail(args))

\* Func.__str__ with " noexcept" put before " const"
Func_str_noexcept_first(self) ==
    LET a0   == ArgsText(self.args)
        args == IF a0 # "" THEN SubSeq(a0, 1, Len(a0) - 2) ELSE a0
    IN  IF self.is_ctor
        THEN self.parent \o "::" \o self.name \o "(" \o args \o ") "
                \o self.except_kind \o " {}"
        ELSE LET body   == IF self.return_type # "void" THEN " return {}; " ELSE ""
                 e1     == IF self.except_kind # ""
                           THEN " " \o self.except_kind ELSE ""
                 extras == IF self.is_const THEN e1 \o " const" ELSE e1
             IN  self.return_type \o " " \o self.parent \o "::" \o self.name
                    \o "(" \o args \o ") " \o extras \o " {" \o body \o "}"

Func_str(self) ==
    LET a0   == ArgsText(self.args)
        args == IF a0 # "" THEN SubSeq(a0, 1, Len(a0) - 2) ELSE a0
    IN  IF self.is_ctor
        THEN self.parent \o "::" \o self.name \o "(" \o args \o ") "
                \o self.except_kind \o " {}"
        ELSE LET body   == IF self.return_type # "void" THEN " return {}; " ELSE ""
                 e1     == IF self.is_const THEN " const" ELSE ""
                 extras == IF self.except_kind # ""
                           THEN e1 \o " " \o self.except_kind ELSE e1
             IN  self.return_type \o " " \o self.parent \o "::" \o self.name
                    \o "(" \o args \o ") " \o extras \o " {" \o body \o "}"

-----------------------------------------------------------------------------
(* args_from_driver_output and argv_from_compdb.                           *)

\* a line of the driver output as the loop sees it
DriverLine(line) == Strip(Strip(line, " "), "\t")

\* the outcome of a call: the value returned (raised is ""), or the name of
\* the exception raised
Returned(v) == [raised |-> "", value |-> v]
Raised(e) == [raised |-> e, value |-> <<>>]

\* what subprocess.run raises: the driver is not there, is not executable,
\* lies under something that is no directory or is no program the system
\* can execute (OSError and its subclasses), its output is no text
\* (text=True), its name holds a NUL.  Whichever it is, nothing catches it.
RunErrors == {"FileNotFoundError", "PermissionError", "NotADirectoryError",
              "OSError", "UnicodeDecodeError", "ValueError"}

\* the loop of args_from_driver_output from a given inc_list_started
RECURSIVE DriverArgs(_, _)
DriverArgs(lines, inc_list_started) ==
    IF Len(lines) = 0 THEN <<>>
    ELSE LET line   == DriverLine(lines[1])
             rest   == Tail(lines)
             target == IF StartsWith(line, "Target")
                       THEN <<"--target=" \o Strip(Split(line, ":")[2], " ")>>
                       ELSE <<>>
         IN  IF line = "" THEN DriverArgs(rest, inc_list_started)
             ELSE IF line = "#include <...> search starts here:"
                  THEN target \o DriverArgs(rest, TRUE)
             ELSE IF line = "End of search list."
                  THEN target \o DriverArgs(rest, FALSE)
             ELSE IF inc_list_started
                  THEN target \o <<"-isystem", line>> \o DriverArgs(rest, inc_list_started)
             ELSE target \o DriverArgs(rest, inc_list_started)

\* IndexError when a Target line holds no ":" (line.split(":")[1])
args_from_driver_output(output) ==
    IF \E i \in 1..Len(SplitLines(output)) :
          /\ StartsWith(DriverLine(SplitLines(output)[i]), "Target")
          /\ Len(Split(DriverLine(SplitLines(output)[i]), ":")) < 2
    THEN Raised("IndexError")
    ELSE Returned(DriverArgs(SplitLines(output), FALSE))

RECURSIVE ArgvLoop(_, _)
ArgvLoop(directory, arguments) ==
    IF Len(arguments) = 0 THEN <<>>
    ELSE LET a    == arguments[1]
             rest == ArgvLoop(directory, Tail(arguments))
         IN  IF a = "-fno-aggressive-loop-optimizations" THEN rest
             ELSE IF a = "-Werror" THEN rest
             ELSE IF StartsWith(a, "-I")
                  THEN LET ipath == SubSeq(a, 3, Len(a))
                       IN  IF ~IsAbs(ipath)
                           THEN <<"-I" \o NormPath(PathJoin(directory, ipath))>> \o rest
                           ELSE <<a>> \o rest
             ELSE IF StartsWith(a, "-o")
                  THEN <<"-w", "-ferror-limit=0", a>> \o rest
             ELSE <<a>> \o rest

\* what argv_from_compdb prints: the three lines of a failed driver run
\* (stderr is redirected to stdout, so result.stderr is None)
ArgvPrinted(directory, arguments, driver) ==
    IF Len(ArgvLoop(directory, arguments)) # 0 /\ driver.raised = ""
          /\ driver.returncode # 0
    THEN << "returncode: " \o ToString(driver.returncode),
            "stdout: " \o driver.stdout,
            "stderr: None" >>
    ELSE <<>>

\* driver is the outcome of subprocess.run: the exception it raised, or
\* ("") the returncode and stdout of the run; the result is argv, or the
\* exception that leaves the function
argv_from_compdb(directory, arguments, driver) ==
    LET a == ArgvLoop(directory, arguments)
        r == args_from_driver_output(driver.stdout)
    IN  IF Len(a) = 0 THEN Raised("RuntimeError")
        ELSE IF driver.raised # "" THEN Raised(driver.raised)
        ELSE IF driver.returncode # 0 THEN Raised("RuntimeError")
        ELSE IF r.raised # "" THEN r
        ELSE Returned(a \o r.value)

-----------------------------------------------------------------------------
(* parse_file.                                                             *)

\* compile_command after the lookup loop: <<v>> for the last match v, <<>>
\* for None
RECURSIVE FindCompileCommand(_, _, _)
FindCompileCommand(commands, path, found) ==
    IF Len(commands) = 0 THEN found
    ELSE LET v == commands[1]
         IN  FindCompileCommand(Tail(commands), path,
                 IF PathJoin(v.directory, v.filename) = path THEN <<v>> ELSE found)

\* should_exit set by a Fatal diagnostic only
ShouldExit_fatal_only(diags) ==
    \E i \in 1..Len(diags) : diags[i].severity = Fatal

\* should_exit after the loop over tu.diagnostics
ShouldExit(diags) ==
    \E i \in 1..Len(diags) :
        diags[i].severity = Fatal \/ diags[i].severity = Error

\* the text the loop over tu.diagnostics prints
DiagLines(diags) == [i \in 1..Len(diags) |-> "\n" \o diags[i].text]

FuncKinds ==
    {"CONSTRUCTOR", "DESTRUCTOR", "CXX_METHOD", "FUNCTION_DECL", "FUNCTION_TEMPLATE"}

\* the six tests at the head of the cursor loop: FALSE where the loop continues
CursorSelected(c, root) ==
    /\ StartsWith(c.file, root)
    /\ c.kind \in FuncKinds
    /\ c.access_specifier = "PUBLIC"
    /\ ~c.is_default_method
    /\ ~c.is_deleted_method
    /\ c.is_definition

\* the typenames test with found required of every prefix
PrefixFound_every(fn, tns) ==
    tns # <<>> => \A i \in 1..Len(tns) : StartsWith(fn.full_name, tns[i])

\* the typenames test: FALSE where the loop continues
PrefixFound(fn, tns) ==
    tns # <<>> => \E i \in 1..Len(tns) : StartsWith(fn.full_name, tns[i])

\* fn in all_funcs: list containment compares each element with fn
FuncIn(fn, funcs) == \E i \in 1..Len(funcs) : Func_eq(funcs[i], fn)

\* dup taken from the first element equal to fn (a break after the match)
LastDup_first(fn, funcs) ==
    LET hits == { i \in 1..Len(funcs) : Func_eq(funcs[i], fn) }
    IN  IF hits = {} THEN 0 ELSE CHOOSE i \in hits : \A j \in hits : i <= j

\* the index of dup after the loop of the else branch: the last element
\* equal to fn, 0 when dup stays None
LastDup(fn, funcs) ==
    LET hits == { i \in 1..Len(funcs) : Func_eq(funcs[i], fn) }
    IN  IF hits = {} THEN 0 ELSE CHOOSE i \in hits : \A j \in hits : i >= j

DupWarning(fn, funcs) ==
    "warning: function '" \o Func_str(fn) \o "' is a duplicate of '"
        \o (IF LastDup(fn, funcs) = 0 THEN "None"
            ELSE Func_str(funcs[LastDup(fn, funcs)])) \o "'"

\* all_funcs after one iteration of the cursor loop
FuncsAfter(c, root, tns, funcs) ==
    IF ~CursorSelected(c, root) THEN funcs
    ELSE IF ~PrefixFound(Func(c), tns) THEN funcs
    ELSE IF ~FuncIn(Func(c), funcs) THEN Append(funcs, Func(c))
    ELSE funcs

\* what one iteration of the cursor loop prints
PrintedBy(c, root, tns, funcs) ==
    IF ~CursorSelected(c, root) THEN <<>>
    ELSE IF ~PrefixFound(Func(c), tns) THEN <<>>
    ELSE IF ~FuncIn(Func(c), funcs) THEN <<>>
    ELSE <<DupWarning(Func(c), funcs)>>

-----------------------------------------------------------------------------
(* generate_file.                                                          *)

\* the keys of ns_to_funcs in insertion order
RECURSIVE NsKeys(_, _)
NsKeys(funcs, seen) ==
    IF Len(funcs) = 0 THEN seen
    ELSE NsKeys(Tail(funcs),
                IF \E i \in 1..Len(seen) : seen[i] = funcs[1].namespace
                THEN seen ELSE Append(seen, funcs[1].namespace))

\* ns_to_funcs[ns]
NsFuncs(funcs, ns) == SelectSeq(funcs, LAMBDA fn : fn.namespace = ns)

RECURSIVE OpenText(_)
OpenText(ns_list) ==
    IF Len(ns_list) = 0 THEN ""
    ELSE "namespace " \o ns_list[1] \o " {\n" \o OpenText(Tail(ns_list))

RECURSIVE StubsText(_)
StubsText(funcs) ==
    IF Len(funcs) = 0 THEN ""
    ELSE Func_str(funcs[1]) \o "\n\n" \o StubsText(Tail(funcs))

RECURSIVE CloseText(_)
CloseText(ns_list) ==
    IF Len(ns_list) = 0 THEN "" ELSE "}\n" \o CloseText(Tail(ns_list))

\* the ns_list of one group
NsList(ns) == Split(ns, "::")

GroupText(ns, funcs) ==
    OpenText(NsList(ns)) \o "\n" \o StubsText(funcs) \o CloseText(NsList(ns)) \o "\n"

RECURSIVE GroupsText(_, _)
GroupsText(keys, funcs) ==
    IF Len(keys) = 0 THEN ""
    ELSE GroupText(keys[1], NsFuncs(funcs, keys[1])) \o GroupsText(Tail(keys), funcs)

IncludeLine(path) ==
    "#include \"" \o SplitextRoot(Basename(path)) \o ".hpp\"\n\n"

\* the text generate_file writes to the output file
generate_file(funcs, path) ==
    IncludeLine(path) \o GroupsText(NsKeys(funcs, <<>>), funcs)

-----------------------------------------------------------------------------
(* The environment: compilation databases, driver runs, parse results.     *)

\* args.build_dir with the default -b
build_dir(root) == PathJoin(root, "b")

Command(dir, file, arguments) ==
    [directory |-> dir, filename |-> file, arguments |-> arguments]

CompDbs ==
    { <<Command("/p/r/b", "/p/r/c.cpp",
                <<"c++", "-Iinc", "-I../inc/", "-I/opt/inc", "-Werror", "-o", "c.o",
                  "/p/r/c.cpp">>)>>,
      <<Command("/p/r/b", "../c.cpp", <<"c++", "../c.cpp">>),
        Command("/p/r/b", "/p/r/d.cpp", <<"c++", "/p/r/d.cpp">>)>>,
      <<Command("/p/r", "c.cpp", <<"-Werror", "-fno-aggressive-loop-optimizations">>)>>,
      <<>> }

DriverRuns ==
    { [raised |-> "", returncode |-> 0,
       stdout |-> "Using built-in specs.\nTarget: x86_64-linux-gnu\n#include <...> search starts here:\n /usr/include\nEnd of search list.\n"],
      [raised |-> "", returncode |-> 0, stdout |-> "Target\n"],
      [raised |-> "", returncode |-> 1, stdout |-> "c++: fatal error: no input files\n"] }
    \cup { [raised |-> e, returncode |-> 0, stdout |-> ""] : e \in RunErrors }

\* abspath of the default args.output_file, for a run started in /p/r
OutputPath == "/p/r/cppmuck.cpp"

\* what that file holds before the run: nothing, or an earlier text
EarlierFiles == {NoFile, "// earlier content\n"}

\* the null device: open(path, "w") and every write to it succeed whatever
\* the limits on files and the space left, and it holds nothing afterwards
NullDevice == "/dev/null"

\* what a read of the null device gives
NullContent == ""

\* the numbers of characters that can have reached a file when the write of
\* text s fails (a file size limit, a full device): any number short of the
\* whole text
WrittenBeforeFailure(s) == 0..(Len(s) - 1)

Diag(sev, text) == [severity |-> sev, text |-> text]

DiagLists ==
    { <<>>,
      <<Diag(Note, "c.cpp:1:1: note: n"), Diag(Warning, "c.cpp:2:1: warning: w")>>,
      <<Diag(Error, "c.cpp:3:1: error: e"), Diag(Warning, "c.cpp:2:1: warning: w")>>,
      <<Diag(Fatal, "c.cpp:1:10: fatal error: f")>> }

-----------------------------------------------------------------------------
(* The steps of main() and parse_file().                                   *)

Exit(lines) ==
    /\ pc' = "exit"
    /\ exit_code' = 1
    /\ stdout' = stdout \o lines

\* CompilationDatabase.fromDirectory(build_dir)
LoadCompDb ==
    /\ pc = "load_db"
    /\ \/ /\ Exit(<<"error loading compilation database from \""
                      \o build_dir(root_dir) \o "\"">>)
          /\ UNCHANGED comp_db
       \/ \E db \in CompDbs :
            /\ comp_db' = db
            /\ pc' = "find_command"
            /\ UNCHANGED <<exit_code, stdout>>
    /\ UNCHANGED <<decls, root_dir, filepath, output_path,
                   typenames, compile_command, argv,
                   tu, diagnostics, walked, all_funcs, output_file>>

\* the loop over comp_db.getAllCompileCommands() and the test after it
FindCommand ==
    /\ pc = "find_command"
    /\ compile_command' = FindCompileCommand(comp_db, filepath, <<>>)
    /\ IF Len(compile_command') = 0
       THEN Exit(<<"error: cannot find the file in the compilation database">>)
       ELSE pc' = "argv" /\ UNCHANGED <<exit_code, stdout>>
    /\ UNCHANGED <<decls, root_dir, filepath, output_path,
                   typenames, comp_db, argv,
                   tu, diagnostics, walked, all_funcs, output_file>>

\* argv_from_compdb(...); an exception it raises is not caught and ends the
\* process with status 1
BuildArgv ==
    /\ pc = "argv"
    /\ \E driver \in DriverRuns :
         LET r == argv_from_compdb(compile_command[1].directory,
                                   compile_command[1].arguments, driver)
         IN  IF r.raised # ""
             THEN /\ Exit(ArgvPrinted(compile_command[1].directory,
                                      compile_command[1].arguments, driver))
                  /\ UNCHANGED argv
             ELSE /\ argv' = r.value
                  /\ pc' = "parse"
                  /\ UNCHANGED <<exit_code, stdout>>
    /\ UNCHANGED <<decls, root_dir, filepath, output_path,
                   typenames, comp_db, compile_command,
                   tu, diagnostics, walked, all_funcs, output_file>>

\* index.parse(None, args=argv[1:])
ParseTU ==
    /\ pc = "parse"
    /\ \/ /\ Exit(<<"\nerror parsing translation unit">>)
          /\ tu' = "error"
          /\ UNCHANGED diagnostics
       \/ \E r \in DiagLists :
            /\ tu' = "loaded"
            /\ diagnostics' = r
            /\ pc' = "diagnostics"
            /\ UNCHANGED <<exit_code, stdout>>
    /\ UNCHANGED <<decls, root_dir, filepath, output_path,
                   typenames, comp_db, compile_command,
                   argv, walked, all_funcs, output_file>>

\* the loop over tu.diagnostics and the test of should_exit
CheckDiagnostics ==
    /\ pc = "diagnostics"
    /\ IF ShouldExit(diagnostics)
       THEN Exit(DiagLines(diagnostics))
       ELSE /\ pc' = "walk"
            /\ stdout' = stdout \o DiagLines(diagnostics)
            /\ UNCHANGED exit_code
    /\ UNCHANGED <<decls, root_dir, filepath, output_path,
                   typenames, comp_db, compile_command,
                   argv, tu, diagnostics, walked, all_funcs, output_file>>

\* one iteration of the loop over tu.cursor.walk_preorder()
Visit ==
    /\ pc = "walk"
    /\ Len(walked) < MaxCursors
    /\ \E c \in decls :
         /\ walked' = Append(walked, c)
         /\ all_funcs' = FuncsAfter(c, root_dir, typenames, all_funcs)
         /\ stdout' = stdout \o PrintedBy(c, root_dir, typenames, all_funcs)
    /\ UNCHANGED <<pc, decls, root_dir, filepath, output_path,
                   typenames, comp_db,
                   compile_command, argv, tu, diagnostics, output_file, exit_code>>

\* the walk is over: parse_file returns all_funcs, main prints the time
\* (the measured time is left out of the line)
ReturnFuncs ==
    /\ pc = "walk"
    /\ pc' = "generate"
    /\ stdout' = Append(stdout, "parse: <elapsed> s")
    /\ UNCHANGED <<decls, root_dir, filepath, output_path,
                   typenames, comp_db, compile_command,
                   argv, tu, diagnostics, walked, all_funcs, output_file, exit_code>>

\* generate_file(all_funcs, args.filepath, args.output_file), then main ends.
\* open(output_file, "w") raises (a missing or unwritable directory, no file
\* descriptor left) and the file is as it was; or it creates or truncates
\* the file, and then the text is written in full, or the write fails and
\* the file holds the characters written before.  Nothing catches either
\* exception: the process ends with status 1.  The null device takes the
\* whole text and keeps none of it.
GenerateFile ==
    /\ pc = "generate"
    /\ LET s == generate_file(all_funcs, filepath)
       IN  \/ /\ output_file' = IF output_path = NullDevice THEN NullContent ELSE s
              /\ stdout' = Append(stdout, "generate: <elapsed> s")
              /\ pc' = "done"
              /\ exit_code' = 0
           \/ /\ Exit(<<>>)
              /\ UNCHANGED output_file
           \/ /\ output_path # NullDevice
              /\ \E n \in WrittenBeforeFailure(s) :
                    output_file' = SubSeq(s, 1, n)
              /\ Exit(<<>>)
    /\ UNCHANGED <<decls, root_dir, filepath, output_path,
                   typenames, comp_db, compile_command,
                   argv, tu, diagnostics, walked, all_funcs>>

Next ==
    \/ LoadCompDb
    \/ FindCommand
    \/ BuildArgv
    \/ ParseTU
    \/ CheckDiagnostics
    \/ Visit
    \/ ReturnFuncs
    \/ GenerateFile

\* the state main() starts parse_file in
InitWith(cursors, roots, paths, prefixes, out, files) ==
    /\ output_path = out
    /\ pc = "load_db"
    /\ decls = cursors
    /\ root_dir \in roots
    /\ filepath \in paths
    /\ typenames \in prefixes
    /\ comp_db = <<>>
    /\ compile_command = <<>>
    /\ argv = <<>>
    /\ tu = "none"
    /\ diagnostics = <<>>
    /\ walked = <<>>
    /\ all_funcs = <<>>
    /\ stdout = <<>>
    /\ output_file \in files
    /\ exit_code = -1

-----------------------------------------------------------------------------
(* The cursors of the translation units checked.  A cursor of a function   *)
(* that is no class member has no access specifier (INVALID); methods,     *)
(* constructors and destructors are class members.                         *)

NS(n) == [kind |-> "NAMESPACE", spelling |-> n]
Class(n) == [kind |-> "CLASS_DECL", spelling |-> n]
Struct(n) == [kind |-> "STRUCT_DECL", spelling |-> n]
Param(t, n) == [type |-> t, spelling |-> n]

\* int a::b::C::f() {...}, public, defined at /p/r/c.hpp:3
Method ==
    [ file |-> "/p/r/c.hpp", line |-> 3, kind |-> "CXX_METHOD",
      access_specifier |-> "PUBLIC", is_default_method |-> FALSE,
      is_deleted_method |-> FALSE, is_definition |-> TRUE,
      spelling |-> "f", semantic_parents |-> <<Class("C"), NS("b"), NS("a")>>,
      result_type |-> "int", arguments |-> <<>>, is_const_method |-> FALSE,
      exception_specification_kind |-> "NONE" ]

\* overloads of a::b::C::f, some of them seen a second time at another place
DedupParams ==
    { <<Param("int", "x")>>, <<Param("int", "y")>>, <<Param("char", "x")>>,
      <<Param("int", ""), Param("int", "")>>,
      <<Param("int", ""), Param("char", "")>>,
      <<Param("char", ""), Param("char", "")>> }

DedupCursors ==
    { [Method EXCEPT !.arguments = a, !.result_type = r] :
         a \in DedupParams, r \in {"void", "int"} }
    \cup
    { [Method EXCEPT !.arguments = a, !.result_type = "void",
                     !.file = "/p/r/inc/c.hpp", !.line = 7] :
         a \in { <<Param("int", "x")>>, <<Param("int", ""), Param("char", "")>> } }

\* declarations that differ in one filter criterion each
FilterCursors ==
    { Method,
      [Method EXCEPT !.spelling = "g",
                     !.semantic_parents = <<Class("Other"), NS("b"), NS("a")>>],
      [Method EXCEPT !.semantic_parents = <<Class("Cat"), NS("b"), NS("a")>>],
      [Method EXCEPT !.semantic_parents = <<Struct("C")>>],
      [Method EXCEPT !.file = "/p/r2/c.hpp"],
      [Method EXCEPT !.file = "/usr/include/c.hpp"],
      [Method EXCEPT !.spelling = "h", !.access_specifier = "PRIVATE"],
      [Method EXCEPT !.spelling = "Create", !.kind = "FUNCTION_DECL",
                     !.access_specifier = "INVALID",
                     !.semantic_parents = <<NS("b"), NS("a")>>],
      [Method EXCEPT !.spelling = "tmpl", !.kind = "FUNCTION_TEMPLATE",
                     !.access_specifier = "INVALID", !.semantic_parents = <<>>],
      [Method EXCEPT !.spelling = "C", !.kind = "CONSTRUCTOR",
                     !.result_type = "void", !.is_default_method = TRUE],
      [Method EXCEPT !.spelling = "del", !.is_deleted_method = TRUE],
      [Method EXCEPT !.spelling = "decl", !.is_definition = FALSE],
      [Method EXCEPT !.spelling = "field", !.kind = "FIELD_DECL"] }

\* declarations that differ in what Func.__str__ and generate_file render
RenderCursors ==
    { [Method EXCEPT !.spelling = "reset", !.result_type = "void",
                     !.semantic_parents = <<Struct("C")>>],
      [Method EXCEPT !.spelling = "compute", !.arguments = <<Param("int", "x")>>,
                     !.semantic_parents = <<Class("C"), NS("ns")>>,
                     !.is_const_method = TRUE,
                     !.exception_specification_kind = "BASIC_NOEXCEPT"],
      [Method EXCEPT !.spelling = "at", !.result_type = "char",
                     !.arguments = <<Param("int", ""), Param("long", "n")>>,
                     !.semantic_parents = <<Class("C"), NS("ns")>>,
                     !.is_const_method = TRUE],
      [Method EXCEPT !.spelling = "C", !.kind = "CONSTRUCTOR", !.result_type = "void",
                     !.arguments = <<Param("int", "a"), Param("char", "b")>>,
                     !.exception_specification_kind = "BASIC_NOEXCEPT"],
      [Method EXCEPT !.spelling = "~C", !.kind = "DESTRUCTOR", !.result_type = "void",
                     !.semantic_parents = <<Class("C"), NS("ns")>>],
      [Method EXCEPT !.result_type = "void",
                     !.exception_specification_kind = "BASIC_NOEXCEPT"],
      [Method EXCEPT !.spelling = "g", !.kind = "FUNCTION_TEMPLATE",
                     !.exception_specification_kind = "DYNAMIC",
                     !.semantic_parents = <<Struct("Inner"), Class("Outer"), NS("a")>>] }

\* the whole run over the rendering cursors, to a file that is not there
Init ==
    InitWith(RenderCursors, {"/p/r"}, {"/p/r/c.cpp"}, {<<>>}, OutputPath, {NoFile})
Spec == Init /\ [][Next]_vars

\* the run over the filter cursors, with and without name prefixes, with
\* -o /dev/null
InitFilter ==
    InitWith(FilterCursors, {"/p/r"}, {"/p/r/c.cpp"},
             {<<>>, <<"a::b::C">>, <<"C::f", "a::b::Other::">>},
             NullDevice, {NullContent})
SpecFilter == InitFilter /\ [][Next]_vars

\* the run over the overloads, with -o /dev/null
InitDedup ==
    InitWith(DedupCursors, {"/p/r"}, {"/p/r/c.cpp"}, {<<>>},
             NullDevice, {NullContent})
SpecDedup == InitDedup /\ [][Next]_vars

\* the cursors of the runs that end in the output file: a method of a
\* global struct and one of a class in a namespace
OutputCursors == { c \in RenderCursors : c.spelling \in {"reset", "compute"} }

\* the run to that file, absent or holding an earlier text, over two cursors
InitOutput ==
    InitWith(OutputCursors, {"/p/r"}, {"/p/r/c.cpp"}, {<<>>}, OutputPath, EarlierFiles)
SpecOutput == InitOutput /\ [][Next]_vars

-----------------------------------------------------------------------------
(* Vocabulary of the properties.                                           *)

Steps == 1..Len(walked)
Accepted == 1..Len(all_funcs)

\* walked[i] passed the whole declaration filter and reached the deduplicator
Passed(i) ==
    /\ CursorSelected(walked[i], root_dir)
    /\ PrefixFound(Func(walked[i]), typenames)

\* a and b are structurally identical: only file and line may differ
SameSignature(a, b) ==
    /\ a.name = b.name /\ a.parent = b.parent /\ a.namespace = b.namespace
    /\ a.return_type = b.return_type /\ a.args = b.args

\* how many accepted signatures are structurally identical to fn
Occurrences(fn) == Cardinality({ k \in Accepted : SameSignature(all_funcs[k], fn) })

Contains(s, sub) == Find(s, sub) # 0

\* the lines of stdout that name both a and b
LinesNaming(a, b) ==
    { k \in 1..Len(stdout) :
        Contains(stdout[k], Func_str(a)) /\ Contains(stdout[k], Func_str(b)) }

\* same name, scope and arity, but another parameter type or return type
Conflicting(a, b) ==
    /\ a.name = b.name /\ a.parent = b.parent /\ a.namespace = b.namespace
    /\ Len(a.args) = Len(b.args)
    /\ \/ a.return_type # b.return_type
       \/ \E k \in 1..Len(a.args) : a.args[k].type # b.args[k].type

\* how often type t occurs among the parameters of fn
TypeCount(fn, t) == Cardinality({ k \in 1..Len(fn.args) : fn.args[k].type = t })

\* the equivalence of signatures: name, scope, return type and the multiset
\* of parameter types, parameter names ignored
Equivalent(a, b) ==
    /\ a.name = b.name /\ a.parent = b.parent /\ a.namespace = b.namespace
    /\ a.return_type = b.return_type
    /\ \A t \in { a.args[k].type : k \in 1..Len(a.args) }
             \cup { b.args[k].type : k \in 1..Len(b.args) } :
          TypeCount(a, t) = TypeCount(b, t)

\* file lies in directory dir (no trailing slash) or in a directory below it
InsideDir(file, dir) == StartsWith(file, dir \o "/")

-----------------------------------------------------------------------------
(* C1..C4: the deduplicator (checked under SpecDedup).                     *)

\* C1 (as claimed): two declarations that pass the filter and share name,
\* class-chain, namespace-chain and parameter count but differ in a parameter
\* type or in return type are both in all_funcs, and exactly one printed
\* warning names both of them.
C1_ConflictKeptAndWarned ==
    \A i \in Steps : \A j \in Steps :
        (i < j /\ Passed(i) /\ Passed(j)
               /\ Conflicting(Func(walked[i]), Func(walked[j])))
        => /\ Occurrences(Func(walked[i])) >= 1
           /\ Occurrences(Func(walked[j])) >= 1
           /\ Cardinality(LinesNaming(Func(walked[i]), Func(walked[j]))) = 1

\* C2 (as claimed): for the signatures the deduplicator compares, Func.__eq__
\* holds exactly when name, scope, return type and the multiset of parameter
\* types agree (parameter names ignored), and it is symmetric.
C2_EqIsEquivalence ==
    \A i \in Steps : \A j \in Steps :
        (Passed(i) /\ Passed(j))
        => LET a == Func(walked[i])
               b == Func(walked[j])
           IN  /\ Func_eq(a, b) <=> Equivalent(a, b)
               /\ Func_eq(a, b) <=> Func_eq(b, a)

\* C3 (as claimed): when two or more walked declarations pass the filter and
\* are structurally identical, all_funcs holds exactly one signature
\* structurally identical to them, whatever was walked in between.
C3_IdenticalCollapseToOne ==
    \A i \in Steps : \A j \in Steps :
        (i < j /\ Passed(i) /\ Passed(j)
               /\ SameSignature(Func(walked[i]), Func(walked[j])))
        => Occurrences(Func(walked[i])) = 1

\* a step of the cursor loop whose signature is found in all_funcs
DiscardStep ==
    /\ pc = "walk"
    /\ Len(walked') = Len(walked) + 1
    /\ LET c == walked'[Len(walked')]
       IN  /\ CursorSelected(c, root_dir)
           /\ PrefixFound(Func(c), typenames)
           /\ \E k \in Accepted : Func_eq(all_funcs[k], Func(c))

\* C4 (as claimed): a signature equal to an accepted one is discarded
\* silently: all_funcs is unchanged and nothing is printed.
C4_DuplicateDiscardedSilently ==
    [][DiscardStep => (all_funcs' = all_funcs /\ stdout' = stdout)]_vars

\* C4 (amended): a signature equal to an accepted one is discarded, all_funcs
\* is unchanged, and exactly one line is printed: the duplicate warning naming
\* the signature and the last accepted signature equal to it.
C4_DuplicateDiscardedWithWarning ==
    [][DiscardStep =>
        /\ all_funcs' = all_funcs
        /\ \E k \in Accepted :
             /\ Func_eq(all_funcs[k], Func(walked'[Len(walked')]))
             /\ \A j \in Accepted :
                  j > k => ~Func_eq(all_funcs[j], Func(walked'[Len(walked')]))
             /\ stdout' = Append(stdout,
                    "warning: function '" \o Func_str(Func(walked'[Len(walked')]))
                       \o "' is a duplicate of '" \o Func_str(all_funcs[k]) \o "'")
      ]_vars

\* C4 witness: a signature was discarded that two accepted signatures equal,
\* and its warning is the last line printed.
C4_Witness ==
    /\ pc = "walk"
    /\ Len(walked) = 3
    /\ Len(all_funcs) = 2
    /\ Passed(3)
    /\ \A k \in Accepted : Func_eq(all_funcs[k], Func(walked[3]))
    /\ Len(stdout) > 0
    /\ StartsWith(stdout[Len(stdout)], "warning: function '")

-----------------------------------------------------------------------------
(* C5..C7: the declaration filter (checked under SpecFilter).              *)

\* c is a free function or a function template at namespace scope
FreeFunction(c) ==
    /\ c.kind \in {"FUNCTION_DECL", "FUNCTION_TEMPLATE"}
    /\ KindAt(c.semantic_parents, 1) \notin ClassKinds

\* C5 (as claimed): a free function or namespace-scope function template
\* under the project root that is a definition, not defaulted, not deleted
\* and matches the prefixes (if any) is accepted.
C5_FreeFunctionsAccepted ==
    \A i \in Steps :
        LET c == walked[i]
        IN  (/\ FreeFunction(c)
             /\ InsideDir(c.file, root_dir)
             /\ c.is_definition /\ ~c.is_default_method /\ ~c.is_deleted_method
             /\ PrefixFound(Func(c), typenames))
            => Occurrences(Func(c)) >= 1

\* C6 (as claimed): no accepted signature comes from a file that is not in
\* the project root directory or in a directory below it.
C6_OutOfRootExcluded ==
    \A k \in Accepted : InsideDir(all_funcs[k].file, root_dir)

\* the fully-qualified name: namespace-chain, class-chain and name joined
\* by "::", empty segments omitted
QualifiedName(c) ==
    Join(SelectSeq(<<get_namespace(c), get_parent(c), c.spelling>>,
                   LAMBDA seg : seg # ""), "::")

\* C7: a walked declaration that satisfies the other filter conditions is
\* kept (accepted, or found equal to an accepted signature) if and only if
\* no prefixes were supplied or its fully-qualified name starts with one of
\* them; with prefixes ["a::b::C"], a::b::C::f is kept and a::b::Other::g is
\* dropped.
C7_PrefixFilter ==
    /\ \A i \in Steps :
         CursorSelected(walked[i], root_dir)
         => ( (\E k \in Accepted : Func_eq(all_funcs[k], Func(walked[i])))
              <=> ( \/ Len(typenames) = 0
                    \/ \E t \in 1..Len(typenames) :
                         StartsWith(QualifiedName(walked[i]), typenames[t]) ) )
    /\ typenames = <<"a::b::C">>
       => /\ \A i \in Steps :
               (CursorSelected(walked[i], root_dir)
                    /\ QualifiedName(walked[i]) = "a::b::C::f")
               => \E k \in Accepted : all_funcs[k].full_name = "a::b::C::f"
          /\ \A k \in Accepted : all_funcs[k].full_name # "a::b::Other::g"

\* C7 witness: with prefixes ["a::b::C"], a::b::C::f and a::b::Other::g have
\* both been walked and only the first was kept.
C7_Witness ==
    /\ typenames = <<"a::b::C">>
    /\ \E i \in Steps : CursorSelected(walked[i], root_dir)
                           /\ QualifiedName(walked[i]) = "a::b::C::f"
    /\ \E i \in Steps : CursorSelected(walked[i], root_dir)
                           /\ QualifiedName(walked[i]) = "a::b::Other::g"
    /\ Len(all_funcs) = 1
    /\ all_funcs[1].full_name = "a::b::C::f"

-----------------------------------------------------------------------------
(* C8..C10: the run and its output (C8 under SpecOutput, else Spec).       *)

\* no command of the loaded database names the source file
NoEntry ==
    \A k \in 1..Len(comp_db) :
        PathJoin(comp_db[k].directory, comp_db[k].filename) # filepath

\* some diagnostic has severity Error or above
BadDiagnostic == \E k \in 1..Len(diagnostics) : diagnostics[k].severity >= Error

Terminated == pc \in {"exit", "done"}

\* the line main prints when parse_file has returned
ParseLine == "parse: <elapsed> s"

\* the run has not touched the output file
Untouched == output_file \in EarlierFiles

\* the text generate_file builds in this run
OutputText == generate_file(all_funcs, filepath)

\* main has printed the "parse:" line: parse_file has returned
ParseDone == \E k \in 1..Len(stdout) : stdout[k] = ParseLine

\* C8 as stated: a run in which the source file has no entry in the
\* compilation database, the translation unit fails to load, or a diagnostic
\* is Fatal or Error never reaches generate_file, leaves the output file
\* untouched and ends with a non-zero exit status; a run whose translation
\* unit loaded with every diagnostic below Error does not abort: its next
\* step is always enabled until it has written the output file and ended
\* with status 0; no failed run produces output.
C8_NoOutputOnFailure ==
    /\ (NoEntry \/ tu = "error" \/ BadDiagnostic)
       => /\ pc \notin {"walk", "generate", "done"}
          /\ Untouched
          /\ Terminated => (pc = "exit" /\ exit_code = 1)
    /\ pc = "exit" => (exit_code = 1 /\ Untouched)
    /\ (tu = "loaded" /\ ~BadDiagnostic)
       => /\ pc # "exit"
          /\ ~Terminated => ENABLED (CheckDiagnostics \/ ReturnFuncs \/ GenerateFile)
          /\ Terminated => (output_file = OutputText /\ exit_code = 0)
    /\ ~Untouched => pc = "done"

\* C8 as amended: every run that fails in parse_file (no entry, a failed
\* argv_from_compdb, a unit that does not load, a Fatal or Error diagnostic)
\* never reaches generate_file, leaves the output file untouched and ends
\* with a non-zero status; a run whose translation unit loaded with every
\* diagnostic below Error is not aborted by its diagnostics: parse_file
\* returns and generate_file runs, and the run ends either with the whole
\* text in the output file and status 0, or, when the file cannot be opened
\* or written, after the "parse:" line with a non-zero status and the file
\* untouched or cut to a proper prefix of the text.
C8_OutputUnlessWriteFails ==
    /\ (NoEntry \/ tu = "error" \/ BadDiagnostic)
       => /\ pc \notin {"walk", "generate", "done"}
          /\ Untouched
          /\ Terminated => (pc = "exit" /\ exit_code = 1)
    /\ pc = "exit" => exit_code = 1
    /\ (pc = "exit" /\ ~ParseDone) => Untouched
    /\ (pc = "exit" /\ ParseDone)
       => /\ tu = "loaded" /\ ~BadDiagnostic
          /\ stdout[Len(stdout)] = ParseLine
          /\ \/ Untouched
             \/ /\ Len(output_file) < Len(OutputText)
                /\ StartsWith(OutputText, output_file)
    /\ (tu = "loaded" /\ ~BadDiagnostic)
       => /\ ~Terminated => ENABLED (CheckDiagnostics \/ ReturnFuncs \/ GenerateFile)
          /\ pc = "done" => (output_file = OutputText /\ exit_code = 0)
          /\ pc = "exit" => ParseDone
    /\ ~Untouched => (pc \in {"done", "exit"} /\ ParseDone)
    /\ pc \in {"generate", "done"} => (tu = "loaded" /\ ~BadDiagnostic /\ ParseDone)

\* C8 witness: a run with Note and Warning diagnostics only has ended with
\* the text written over the earlier content, after printing the diagnostics.
C8_Witness ==
    /\ pc = "done"
    /\ Len(diagnostics) > 0
    /\ output_file = OutputText
    /\ exit_code = 0

\* the parameter list: "<type> <name>" joined by ", "
ParamsText(fn) ==
    Join([k \in 1..Len(fn.args) |-> fn.args[k].type \o " " \o fn.args[k].name], ", ")

\* the stub as claimed: single spaces, the fully-qualified name
ClaimedStub(fn) ==
    fn.return_type \o " " \o fn.full_name \o "(" \o ParamsText(fn) \o ")"
       \o (IF fn.is_const THEN " const" ELSE "")
       \o (IF fn.except_kind = "noexcept" THEN " noexcept" ELSE "")
       \o (IF fn.return_type = "void" THEN " {}" ELSE " { return {}; }")

\* the stub as amended: the class-chain alone qualifies the name, and a
\* space follows the closing parenthesis before the qualifiers
AmendedStub(fn) ==
    fn.return_type \o " " \o fn.parent \o "::" \o fn.name
       \o "(" \o ParamsText(fn) \o ") "
       \o (IF fn.is_const THEN " const" ELSE "")
       \o (IF fn.except_kind = "noexcept" THEN " noexcept" ELSE "")
       \o (IF fn.return_type = "void" THEN " {}" ELSE " { return {}; }")

\* the accepted signatures that are neither constructor nor destructor
Ordinary == { k \in Accepted : ~all_funcs[k].is_ctor }

\* C9 (as claimed): every non-constructor stub written is
\* "<return-type> <qualified-name>(<params>)[ const][ noexcept] {<body>}"
\* with single spaces: "void C::reset() {}" and
\* "int ns::C::compute(int x) const noexcept { return {}; }".
C9_StubAsClaimed ==
    pc = "done"
    => \A k \in Ordinary :
          /\ Func_str(all_funcs[k]) = ClaimedStub(all_funcs[k])
          /\ Contains(output_file, "\n" \o ClaimedStub(all_funcs[k]) \o "\n\n")

\* C9 (amended): every non-constructor stub written is
\* "<return-type> <class-chain>::<name>(<params>) [ const][ noexcept] {<body>}":
\* the namespace is not part of the name and a space follows ")" before the
\* " const", " noexcept" and " {" parts, each of which brings its own
\* space; reset renders as "void C::reset()  {}" and compute as
\* "int C::compute(int x)  const noexcept { return {}; }".
C9_StubAsRendered ==
    pc = "done"
    => \A k \in Ordinary :
          /\ Func_str(all_funcs[k]) = AmendedStub(all_funcs[k])
          /\ Contains(output_file, "\n" \o AmendedStub(all_funcs[k]) \o "\n\n")
          /\ all_funcs[k].full_name = "C::reset"
             => Func_str(all_funcs[k]) = "void C::reset()  {}"
          /\ all_funcs[k].full_name = "ns::C::compute"
             => Func_str(all_funcs[k])
                  = "int C::compute(int x)  const noexcept { return {}; }"

\* C9 witness: reset and compute have both been written.
C9_Witness ==
    /\ pc = "done"
    /\ \E k \in Ordinary : all_funcs[k].full_name = "C::reset"
    /\ \E k \in Ordinary : all_funcs[k].full_name = "ns::C::compute"

\* the namespace chain of a group: no element for the global namespace
ChainOf(ns) == IF ns = "" THEN <<>> ELSE Split(ns, "::")

RECURSIVE ClaimedGroups(_, _)
ClaimedGroups(keys, funcs) ==
    IF Len(keys) = 0 THEN ""
    ELSE OpenText(ChainOf(keys[1])) \o "\n"
           \o StubsText(NsFuncs(funcs, keys[1]))
           \o CloseText(ChainOf(keys[1])) \o "\n"
           \o ClaimedGroups(Tail(keys), funcs)

\* C10 (as claimed): after the include line the text holds, for each
\* namespace-chain in first-seen order, one "namespace <name> {" line per
\* element of the chain, the group's stubs in acceptance order and as many
\* "}" lines; the group of the global namespace opens and closes no block.
C10_NamespaceBlocks ==
    pc = "done"
    => output_file
         = IncludeLine(filepath) \o ClaimedGroups(NsKeys(all_funcs, <<>>), all_funcs)

====
